---- MODULE Spec2Model ----
(***************************************************************************)
(* Goa fire trucks: the fetch / normalise / snapshot / daily-track         *)
(* pipeline of main (fetchAndCacheData then createDailyTracks), and the    *)
(* coordinate resolver extractCoordinates.                                 *)
(*                                                                         *)
(* Numbers are fixed-point with seven decimal digits: 14.5 is 145000000.   *)
(***************************************************************************)
EXTENDS Integers, Sequences, FiniteSets, TLC

\* ------------------------------------------------------------------ bounds
\* the records the feed delivers over all runs, and the dates that pass
MaxRecords == 2
MaxDay == 2
\* the lines of a CSV payload
MaxLines == 4

\* --------------------------------------------------------------- constants
Scale == 10000000
LatMin == 145000000
LatMax == 160000000
LngMin == 735000000
LngMax == 745000000
NumVariations == 6

\* parseFloat's NaN and Infinity, as numbers no coordinate takes
NaN == -2000000001
Infinity == 2000000000

\* ------------------------------------------------------------- raw values
\* A JSON / CSV field value: a number, the string "a.b", the string "a,b",
\* a non-numeric string, the empty string, or undefined (field absent).
\* In "a.b" and "a,b", b is the seven-digit fraction.
Num(v) == [k |-> "num", a |-> v, b |-> 0]
Str(ip, fp) == [k |-> "str", a |-> ip, b |-> fp]
Com(ip, fp) == [k |-> "com", a |-> ip, b |-> fp]
Txt == [k |-> "txt", a |-> 0, b |-> 0]
Empty == [k |-> "empty", a |-> 0, b |-> 0]
Undef == [k |-> "undef", a |-> 0, b |-> 0]
\* a text that holds no number; n tells one text from another
Name(n) == [k |-> "txt", a |-> n, b |-> 0]

\* JavaScript truthiness of a field value (`!value`, `if (row.Latitude)`)
Truthy(x) ==
  CASE x.k = "num" -> x.a # 0 /\ x.a # NaN
    [] x.k \in {"str", "com", "txt"} -> TRUE
    [] OTHER -> FALSE

\* parseFloat(value): reads the longest numeric prefix, so it stops at a comma
parseFloat(x) ==
  CASE x.k = "num" -> x.a
    [] x.k = "str" -> x.a * Scale + x.b
    [] x.k = "com" -> x.a * Scale
    [] OTHER -> NaN

\* parseFloat(value.toString().replace(',', '.'))
cleanParse(x) ==
  CASE x.k = "num" -> x.a
    [] x.k \in {"str", "com"} -> x.a * Scale + x.b
    [] OTHER -> NaN

isNaN(n) == n = NaN

inLatRange(n) == n >= LatMin /\ n <= LatMax
inLngRange(n) == n >= LngMin /\ n <= LngMax

\* isValidGoaCoordinate(value, type) for type in {'lat', 'lng'}
isValidGoaCoordinate(value, type) ==
  IF ~Truthy(value) THEN FALSE
  ELSE LET num == IF value.k = "num" THEN value.a ELSE cleanParse(value)
       IN  IF isNaN(num) THEN FALSE
           ELSE IF type = "lat" THEN inLatRange(num)
           ELSE inLngRange(num)

\* isValidCoordinate(value): a finite number
isValidCoordinate(n) == n # NaN /\ n # Infinity /\ n # -Infinity

\* ------------------------------------------------------ coordinate resolver
KnownVehicle1 == "GA 07 G 0308-FFHQ(QUICK RESPONSE)"
KnownVehicle2 == "GA 07 G 0350-PNJ(WATER TENDER)"

\* the defaults of the two special cases: '15.486755', '73.817429',
\* '15.0236433', '74.04406'
DefaultDoor1 == Str(15, 4867550)
DefaultDoor2 == Str(73, 8174290)
DefaultIGN == Str(15, 236433)
DefaultPower == Str(74, 440600)

\* row[field] || fallback
OrElse(value, fallback) == IF Truthy(value) THEN value ELSE fallback

Invalid == [valid |-> FALSE, lat |-> NaN, lng |-> NaN, source |-> ""]
Found(lat, lng, source) == [valid |-> TRUE, lat |-> lat, lng |-> lng, source |-> source]

\* Strategy 0: special case handling for the two known vehicles
specialCase(row, vehicle, latField, lngField, latDefault, lngDefault, source) ==
  IF row["Vehicle_No"] = vehicle
  THEN LET lat == parseFloat(OrElse(row[latField], latDefault))
           lng == parseFloat(OrElse(row[lngField], lngDefault))
       IN  IF ~isNaN(lat) /\ ~isNaN(lng)
              /\ isValidGoaCoordinate(Num(lat), "lat")
              /\ isValidGoaCoordinate(Num(lng), "lng")
           THEN Found(lat, lng, source)
           ELSE Invalid
  ELSE Invalid

\* Strategy 1: a known pair of fields (Door1/Door2, IGN/Power): validated
\* with the decimal comma replaced, returned through a plain parseFloat
knownPair(row, latField, lngField, source) ==
  IF isValidGoaCoordinate(row[latField], "lat") /\ isValidGoaCoordinate(row[lngField], "lng")
  THEN Found(parseFloat(row[latField]), parseFloat(row[lngField]), source)
  ELSE Invalid

locationFields == <<"Location", "POI", "Datetime", "Latitude", "Longitude", "Status", "Speed">>

\* Strategy 2, one iteration of the loop over adjacent fields
windowPair(row, i) ==
  LET field1 == locationFields[i]
      field2 == locationFields[i + 1]
  IN  IF ~Truthy(row[field1]) \/ ~Truthy(row[field2]) THEN Invalid
      ELSE LET val1 == parseFloat(row[field1])
               val2 == parseFloat(row[field2])
           IN  IF isNaN(val1) \/ isNaN(val2) THEN Invalid
               ELSE IF isValidGoaCoordinate(Num(val1), "lat") /\ isValidGoaCoordinate(Num(val2), "lng")
                    THEN Found(val1, val2, field1 \o "/" \o field2)
               ELSE IF isValidGoaCoordinate(Num(val1), "lng") /\ isValidGoaCoordinate(Num(val2), "lat")
                    THEN Found(val2, val1, field2 \o "/" \o field1)
               ELSE Invalid

\* Strategy 2: coordPairs[0], the first adjacent pair that validates
RECURSIVE slidingWindow(_, _)
slidingWindow(row, i) ==
  IF i > Len(locationFields) - 1 THEN Invalid
  ELSE IF windowPair(row, i).valid THEN windowPair(row, i)
  ELSE slidingWindow(row, i + 1)

\* the order of Object.entries(row): the order of the feed's columns
FieldOrder == <<"Location", "POI", "Datetime", "Latitude", "Longitude", "Status",
                "Speed", "IGN", "Power", "Door1", "Door2">>

latConfidenceOf(field) ==
  IF field = "Latitude" THEN 10 ELSE IF field \in {"IGN", "Door1"} THEN 8 ELSE 5

lngConfidenceOf(field) ==
  IF field = "Longitude" THEN 10 ELSE IF field \in {"Power", "Door2"} THEN 8 ELSE 5

scanField_LastWins(row, field, st) ==
  IF ~Truthy(row[field]) THEN st
  ELSE LET num == cleanParse(row[field])
       IN  IF isNaN(num) THEN st
           ELSE LET st1 == IF isValidGoaCoordinate(Num(num), "lat")
                              /\ latConfidenceOf(field) >= st.latConfidence
                           THEN [st EXCEPT !.bestLat = num,
                                           !.latConfidence = latConfidenceOf(field),
                                           !.latField = field]
                           ELSE st
                IN  IF isValidGoaCoordinate(Num(num), "lng")
                       /\ lngConfidenceOf(field) >= st1.lngConfidence
                    THEN [st1 EXCEPT !.bestLng = num,
                                     !.lngConfidence = lngConfidenceOf(field),
                                     !.lngField = field]
                    ELSE st1

\* Strategy 3, the loop body: st is (bestLat, latConfidence, latField,
\* bestLng, lngConfidence, lngField)
scanField(row, field, st) ==
  IF ~Truthy(row[field]) THEN st
  ELSE LET num == cleanParse(row[field])
       IN  IF isNaN(num) THEN st
           ELSE LET st1 == IF isValidGoaCoordinate(Num(num), "lat")
                              /\ latConfidenceOf(field) > st.latConfidence
                           THEN [st EXCEPT !.bestLat = num,
                                           !.latConfidence = latConfidenceOf(field),
                                           !.latField = field]
                           ELSE st
                IN  IF isValidGoaCoordinate(Num(num), "lng")
                       /\ lngConfidenceOf(field) > st1.lngConfidence
                    THEN [st1 EXCEPT !.bestLng = num,
                                     !.lngConfidence = lngConfidenceOf(field),
                                     !.lngField = field]
                    ELSE st1

RECURSIVE scanFrom(_, _, _)
scanFrom(row, i, st) ==
  IF i > Len(FieldOrder) THEN st
  ELSE scanFrom(row, i + 1, scanField(row, FieldOrder[i], st))

\* Strategy 3: the best latitude and the best longitude of any field
globalScan(row) ==
  LET st == scanFrom(row, 1, [bestLat |-> NaN, latConfidence |-> 0, latField |-> "",
                              bestLng |-> NaN, lngConfidence |-> 0, lngField |-> ""])
  IN  IF st.bestLat # NaN /\ st.bestLng # NaN
      THEN Found(st.bestLat, st.bestLng, st.latField \o "/" \o st.lngField)
      ELSE Invalid

laterStrategies_ScanFirst(row) ==
  LET s1a == knownPair(row, "Door1", "Door2", "Door1/Door2")
      s1b == knownPair(row, "IGN", "Power", "IGN/Power")
      s2 == slidingWindow(row, 1)
      s3 == globalScan(row)
  IN  IF s3.valid THEN s3
      ELSE IF s2.valid THEN s2
      ELSE IF s1b.valid THEN s1b
      ELSE s1a

\* Strategies 1 to 3, what extractCoordinates does after the special cases
laterStrategies(row) ==
  LET s1a == knownPair(row, "Door1", "Door2", "Door1/Door2")
      s1b == knownPair(row, "IGN", "Power", "IGN/Power")
      s2 == slidingWindow(row, 1)
  IN  IF s1a.valid THEN s1a
      ELSE IF s1b.valid THEN s1b
      ELSE IF s2.valid THEN s2
      ELSE globalScan(row)

\* extractCoordinates(row): the strategies in order, the first success wins
extractCoordinates(row) ==
  LET s0a == specialCase(row, KnownVehicle1, "Door1", "Door2", DefaultDoor1, DefaultDoor2,
                         "special_case_Door1_Door2")
      s0b == specialCase(row, KnownVehicle2, "IGN", "Power", DefaultIGN, DefaultPower,
                         "special_case_IGN_Power")
  IN  IF s0a.valid THEN s0a
      ELSE IF s0b.valid THEN s0b
      ELSE laterStrategies(row)

\* ----------------------------------------------------------------- payloads
Vehicles == {"V1", "V2"}

\* a vehicle id that is the name of the accessor every object inherits
ProtoKey == "__proto__"
Days == 1..MaxDay

\* an element of a payload array: an object with the fields the pipeline
\* reads, null, or a primitive (a number or a string)
Obj(id, lat, lng) ==
  [t |-> "obj", Vehicle_No |-> id, Location |-> Txt, POI |-> Txt, Datetime |-> Txt,
   Latitude |-> lat, Longitude |-> lng, Status |-> Txt, Speed |-> Str(0, 0),
   IGN |-> Txt, Power |-> Txt, Door1 |-> Txt, Door2 |-> Txt,
   Vehicle_Name |-> Txt, Branch |-> Txt]
\* an object whose Latitude and Longitude hold no number and whose Door1 and
\* Door2 hold the given values
ObjDoors(id, d1, d2) == [Obj(id, Txt, Txt) EXCEPT !.Door1 = d1, !.Door2 = d2]
NullElem == [Obj("", Undef, Undef) EXCEPT !.t = "null"]
PrimElem == [Obj("", Undef, Undef) EXCEPT !.t = "prim"]

\* the records a feed delivers: two positions inside the box (one as strings,
\* one as numbers), one finite position outside it, a record without a
\* vehicle id, a record whose only coordinates are in Door1 and Door2 and a
\* record whose vehicle id is "__proto__"
FeedRows ==
  { Obj("V1", Str(15, 4867550), Str(73, 8174290)),
    Obj("V1", Num(155000000), Num(739000000)),
    Obj("V2", Str(15, 4867550), Str(73, 8174290)),
    Obj("V1", Str(20, 0), Str(80, 0)),
    Obj("", Str(15, 4867550), Str(73, 8174290)),
    ObjDoors("V2", Str(15, 4867550), Str(73, 8174290)),
    Obj(ProtoKey, Str(15, 4867550), Str(73, 8174290)) }

RECURSIVE SeqsUpTo(_, _)
SeqsUpTo(S, n) ==
  IF n <= 0 THEN {<<>>}
  ELSE LET shorter == SeqsUpTo(S, n - 1)
       IN  shorter \cup {Append(q, x) : q \in {r \in shorter : Len(r) = n - 1}, x \in S}

\* a JSON value at one of the places the code looks at: absent (or falsy),
\* an array, or some other truthy value (an object, a string, a number)
Absent == [j |-> "absent", items |-> <<>>]
Arr(items) == [j |-> "array", items |-> items]
Other == [j |-> "other", items |-> <<>>]

\* jsonData: top is the payload itself (an array, another truthy value, or
\* null), rootVD is jsonData.root.VehicleData, data is jsonData.data and
\* dataVD is jsonData.data.VehicleData
Json(top, rootVD, data, dataVD) == [top |-> top, rootVD |-> rootVD, data |-> data, dataVD |-> dataVD]

NoJson == Json(Absent, Absent, Absent, Absent)

Payloads(n) ==
  { Json(Other, Arr(q), Absent, Absent) : q \in SeqsUpTo(FeedRows, n) }
  \cup { Json(Arr(q), Absent, Absent, Absent) : q \in SeqsUpTo(FeedRows, IF n > 0 THEN 1 ELSE 0) }
  \cup { Json(Other, Absent, Arr(q), Absent) : q \in SeqsUpTo(FeedRows, IF n > 0 THEN 1 ELSE 0) }
  \cup { Json(Other, Absent, Other, Arr(q)) : q \in SeqsUpTo(FeedRows, IF n > 0 THEN 1 ELSE 0) }
  \cup { Json(Other, Arr(q), Absent, Absent) : q \in SeqsUpTo({NullElem, PrimElem}, IF n > 0 THEN 1 ELSE 0) }
  \cup { Json(Other, Other, Arr(q), Absent) : q \in SeqsUpTo(FeedRows, IF n > 0 THEN 1 ELSE 0) }
  \cup { Json(Other, Other, Absent, Absent),
         Json(Other, Absent, Other, Other),
         Json(Other, Absent, Other, Absent),
         Json(Other, Absent, Absent, Absent),
         NoJson }

\* ---------------------------------------------------------------- variables
VARIABLES
  today,             \* the calendar date format(new Date(), 'yyyyMMdd') gives
  fed,               \* the records the feed has delivered so far
  pc,                \* where the run is
  caller,            \* who called the function the run is in
  attempt,           \* generateAccessToken: i + 1, the request variation tried
  jsonData,          \* fetchLiveData's result
  parsedFireTrucks,  \* the exported module variable
  validRows,         \* fetchAndCacheData's validRows, its return value
  trucks,            \* updateDailyGpxTracks' argument
  gpxDate,           \* updateDailyGpxTracks' today
  tracksGeoJson,     \* updateDailyGpxTracks' collection in memory
  snapshot,          \* the content of OUTPUT_FILE
  gpxFiles,          \* the content of the daily track file of each date
  exitCode,          \* the process exit status, -1 while the run goes on
  authCalls,         \* calls of generateAccessToken in this run
  fetchCalls,        \* data requests sent in this run
  written,           \* the files this run has written
  activated,         \* per date, the vehicles whose track some run has written
  row,               \* resolver: the raw record
  coords,            \* resolver: extractCoordinates' result
  csvText,           \* parseFiretruckCSV: the payload, line by line
  lines,             \* parseFiretruckCSV: the non-empty lines
  currentIndex,      \* parseFiretruckCSV: the next line to read, from 1
  headers,           \* parseFiretruckCSV: the headers in force
  csvRows,           \* parseFiretruckCSV: rows, the rows accepted so far
  builtRows,         \* every row object built so far ('Parsed row:' in the log)
  procs,             \* overlapping runs: each run's call of updateDailyGpxTracks
  lastWriter,        \* overlapping runs: the run whose write came last, 0 for none
  overlapped,        \* overlapping runs: a run has read the file during another's call
  tokenResponse      \* the response to the latest token request, "none" outside authentication

vars == <<today, fed, pc, caller, attempt, jsonData, parsedFireTrucks, validRows, trucks,
          gpxDate, tracksGeoJson, snapshot, gpxFiles, exitCode, authCalls, fetchCalls,
          written, activated, row, coords,
          csvText, lines, currentIndex, headers, csvRows, builtRows,
          procs, lastWriter, overlapped, tokenResponse>>

runVars == <<today, fed, pc, caller, attempt, jsonData, parsedFireTrucks, validRows, trucks,
             gpxDate, tracksGeoJson, snapshot, gpxFiles, exitCode, authCalls, fetchCalls,
             written, activated>>

csvVars == <<csvText, lines, currentIndex, headers, csvRows, builtRows>>

\* parseFiretruckCSV is not running
CsvIdle ==
  /\ csvText = <<>>
  /\ lines = <<>>
  /\ currentIndex = 1
  /\ headers = <<>>
  /\ csvRows = <<>>
  /\ builtRows = <<>>

ovVars == <<procs, lastWriter, overlapped>>

\* the runs that may overlap on one store
Procs == {1, 2}

\* a run that has not called updateDailyGpxTracks yet
IdleProc == [pc |-> "idle", date |-> 1, trucks |-> <<>>, features |-> <<>>]

OverlapIdle ==
  /\ procs = [p \in Procs |-> IdleProc]
  /\ lastWriter = 0
  /\ overlapped = FALSE

\* -------------------------------------------------------------------- files
Missing == [kind |-> "missing", features |-> <<>>, count |-> 0]
\* content JSON.parse rejects
Garbage == [kind |-> "garbage", features |-> <<>>, count |-> 0]
\* content JSON.parse accepts that has no features array, such as {}
Unusable == [kind |-> "unusable", features |-> <<>>, count |-> 0]
Collection(features) == [kind |-> "ok", features |-> features, count |-> Len(features)]

\* the names of the files a run writes: OUTPUT_FILE, getGpxFilename(date)
SnapshotFile == <<"goa-fire-trucks", 0>>
GpxFile(date) == <<"goa-fire-trucks-gpx", date>>

NoSnapshot == [kind |-> "missing", features |-> <<>>, count |-> 0]

\* the row object the resolver specification starts from
NoRow == [Vehicle_No |-> "", Location |-> Undef, POI |-> Undef, Datetime |-> Undef,
          Latitude |-> Undef, Longitude |-> Undef, Status |-> Undef, Speed |-> Undef,
          IGN |-> Undef, Power |-> Undef, Door1 |-> Undef, Door2 |-> Undef]

\* ----------------------------------------------------- fetchAndCacheData
\* the vehicle records in the JSON structure: root.VehicleData, else the
\* payload itself when it is an array, else data or data.VehicleData
extractRows(json) ==
  IF json.top.j # "absent" /\ json.rootVD.j # "absent" THEN json.rootVD
  ELSE IF json.top.j = "array" THEN json.top
  ELSE IF json.top.j # "absent" /\ json.data.j # "absent"
       THEN IF json.data.j = "array" THEN json.data
            ELSE IF json.dataVD.j # "absent" THEN json.dataVD ELSE Arr(<<>>)
  ELSE Arr(<<>>)

\* rows.length, also of a value that is no array
lengthOf(rows) == IF rows.j = "array" THEN Len(rows.items) ELSE 0

\* rows.forEach(...) throws a TypeError: rows is no array, or an element is
\* null (row.Latitude of null)
forEachThrows(rows) ==
  rows.j # "array" \/ \E i \in 1..Len(rows.items) : rows.items[i].t = "null"

\* if (row.Latitude) row.Latitude = parseFloat(row.Latitude)
toNumeric(value) == IF Truthy(value) THEN Num(parseFloat(value)) ELSE value

numericRow(r) ==
  IF r.t = "obj"
  THEN [r EXCEPT !.Latitude = toNumeric(r.Latitude), !.Longitude = toNumeric(r.Longitude)]
  ELSE r

numericRows(items) == [i \in 1..Len(items) |-> numericRow(items[i])]

\* the filter's test
hasValidCoordinates(r) ==
  r.t = "obj" /\ isValidGoaCoordinate(r.Latitude, "lat") /\ isValidGoaCoordinate(r.Longitude, "lng")

filterValidRows(items) == SelectSeq(items, hasValidCoordinates)

\* one Point feature: coordinates [Longitude, Latitude], the rest as properties
pointFeature(r) == [coordinates |-> <<r.Longitude.a, r.Latitude.a>>, Vehicle_No |-> r.Vehicle_No]

snapshotOf(rows) ==
  [kind |-> "ok", features |-> [i \in 1..Len(rows) |-> pointFeature(rows[i])], count |-> Len(rows)]

\* ------------------------------------------------- updateDailyGpxTracks
loadTracks_AlwaysFresh(content) ==
  IF content.kind = "unusable" THEN [usable |-> FALSE, features |-> <<>>]
  ELSE [usable |-> TRUE, features |-> <<>>]

\* tracksGeoJson after the load: the file's collection, or a fresh one when
\* the file is missing or JSON.parse throws; a parsed value without a
\* features array is kept as it is
loadTracks(content) ==
  IF content.kind = "ok" THEN [usable |-> TRUE, features |-> content.features]
  ELSE IF content.kind = "unusable" THEN [usable |-> FALSE, features |-> <<>>]
  ELSE [usable |-> TRUE, features |-> <<>>]

RECURSIVE lastIndexOf(_, _, _)
lastIndexOf(features, id, i) ==
  IF i = 0 THEN 0
  ELSE IF features[i].Vehicle_No = id THEN i
  ELSE lastIndexOf(features, id, i - 1)

\* vehicleTrackMap[key] = index on a plain object: the key "__proto__" is the
\* inherited accessor, whose setter ignores a number, so no own property is
\* made and hasOwnProperty stays false
setKey(map, key, index) == IF key = ProtoKey THEN map ELSE [map EXCEPT ![key] = index]

\* vehicleTrackMap: for each vehicle id the index of its feature, 0 for none
\* (hasOwnProperty is false); a later feature of the same id overwrites an
\* earlier one
vehicleTrackMapOf(features) ==
  [id \in Vehicles \cup {ProtoKey} |->
     IF id = ProtoKey THEN 0 ELSE lastIndexOf(features, id, Len(features))]

truckCoords(truck) == <<parseFloat(truck.Longitude), parseFloat(truck.Latitude)>>

\* the guard of the forEach body: a vehicle id and two finite numbers
truckIsUsable(truck) ==
  truck.t = "obj" /\ truck.Vehicle_No # ""
  /\ isValidCoordinate(truckCoords(truck)[1]) /\ isValidCoordinate(truckCoords(truck)[2])

differsFromLast_Always(existingCoords, c) == TRUE

\* the point is added unless it equals the last point of the track
differsFromLast(existingCoords, c) ==
  Len(existingCoords) = 0
  \/ existingCoords[Len(existingCoords)][1] # c[1]
  \/ existingCoords[Len(existingCoords)][2] # c[2]

\* new Date().toISOString(): a text no record carries
Now == [k |-> "now", a |-> 0, b |-> 0]

\* const timestamp = truck.Datetime || new Date().toISOString()
timestampOf(truck) == OrElse(truck.Datetime, Now)

newFeature_TwoPoints(truck) ==
  [Vehicle_No |-> truck.Vehicle_No, coordinates |-> <<truckCoords(truck), truckCoords(truck)>>,
   Vehicle_Name |-> OrElse(truck.Vehicle_Name, Empty), Branch |-> OrElse(truck.Branch, Empty),
   created |-> timestampOf(truck), lastUpdated |-> timestampOf(truck)]

\* the new track of a vehicle: the LineString of its one point and the
\* properties
newFeature(truck) ==
  [Vehicle_No |-> truck.Vehicle_No, coordinates |-> <<truckCoords(truck)>>,
   Vehicle_Name |-> OrElse(truck.Vehicle_Name, Empty), Branch |-> OrElse(truck.Branch, Empty),
   created |-> timestampOf(truck), lastUpdated |-> timestampOf(truck)]

updateTrack_Prepend(st, truck) ==
  IF ~truckIsUsable(truck) THEN st
  ELSE IF st.map[truck.Vehicle_No] # 0
       THEN LET i == st.map[truck.Vehicle_No]
                existingCoords == st.features[i].coordinates
            IN  IF differsFromLast(existingCoords, truckCoords(truck))
                THEN [st EXCEPT !.features[i].coordinates = <<truckCoords(truck)>> \o existingCoords,
                                !.features[i].lastUpdated = timestampOf(truck)]
                ELSE st
       ELSE [features |-> Append(st.features, newFeature(truck)),
             map |-> setKey(st.map, truck.Vehicle_No, Len(st.features) + 1)]

\* the forEach body; st is [features, map]
updateTrack(st, truck) ==
  IF ~truckIsUsable(truck) THEN st
  ELSE IF st.map[truck.Vehicle_No] # 0
       THEN LET i == st.map[truck.Vehicle_No]
                existingCoords == st.features[i].coordinates
            IN  IF differsFromLast(existingCoords, truckCoords(truck))
                THEN [st EXCEPT !.features[i].coordinates = Append(existingCoords, truckCoords(truck)),
                                !.features[i].lastUpdated = timestampOf(truck)]
                ELSE st
       ELSE [features |-> Append(st.features, newFeature(truck)),
             map |-> setKey(st.map, truck.Vehicle_No, Len(st.features) + 1)]

RECURSIVE updateTracks(_, _, _)
updateTracks(st, list, i) ==
  IF i > Len(list) THEN st
  ELSE updateTracks(updateTrack(st, list[i]), list, i + 1)

\* the features after trucks.forEach
mergedFeatures(features, list) ==
  updateTracks([features |-> features, map |-> vehicleTrackMapOf(features)], list, 1).features

featureIds(features) == {features[i].Vehicle_No : i \in 1..Len(features)}

\* ------------------------------------------------------------------ actions
FreshTracks == [usable |-> TRUE, features |-> <<>>]

Init ==
  /\ today = 1
  /\ fed = 0
  /\ pc = "idle"
  /\ caller = "none"
  /\ attempt = 0
  /\ jsonData = NoJson
  /\ parsedFireTrucks = Arr(<<>>)
  /\ validRows = <<>>
  /\ trucks = <<>>
  /\ gpxDate = 1
  /\ tracksGeoJson = FreshTracks
  /\ snapshot = NoSnapshot
  /\ gpxFiles = [d \in Days |-> Missing]
  /\ exitCode = -1
  /\ authCalls = 0
  /\ fetchCalls = 0
  /\ written = {}
  /\ activated = [d \in Days |-> {}]
  /\ row = NoRow
  /\ coords = Invalid
  /\ CsvIdle
  /\ OverlapIdle
  /\ tokenResponse = "none"

\* the process ends: process.exit(1), or main returns
Exit(code) ==
  /\ pc' = "exited"
  /\ exitCode' = code
  /\ caller' = "none"
  /\ attempt' = 0
  /\ jsonData' = NoJson
  /\ parsedFireTrucks' = Arr(<<>>)
  /\ validRows' = <<>>
  /\ trucks' = <<>>
  /\ tracksGeoJson' = FreshTracks

\* the scheduler starts main: fetchAndCacheData calls generateAccessToken
StartRun ==
  /\ pc \in {"idle", "exited"}
  /\ fed < MaxRecords
  /\ pc' = "generateAccessToken"
  /\ caller' = "main"
  /\ attempt' = 1
  /\ authCalls' = 1
  /\ fetchCalls' = 0
  /\ written' = {}
  /\ exitCode' = -1
  /\ UNCHANGED <<today, fed, jsonData, parsedFireTrucks, validRows, trucks, gpxDate,
                 tracksGeoJson, snapshot, gpxFiles, activated, row, coords>>
  /\ UNCHANGED csvVars
  /\ UNCHANGED ovVars
  /\ tokenResponse' = "none"

\* what a token request gives: the request throws, an HTTP status that is
\* not ok, a result 0 response without or with a token field, another
\* response without a token, another response with a token
TokenResponses == {"throw", "notOk", "result0", "result0Token", "noToken", "token"}

yieldsToken_AnyTokenField(resp) == resp \in {"token", "result0Token"}

\* the response is ok, is no result 0 response and a token is found in it
yieldsToken(resp) == resp = "token"

triesNext_AlsoAfterThrow(resp, i) == i < NumVariations

\* the loop goes on to the next variation: the request has not thrown and
\* this was not the last variation
triesNext(resp, i) == resp # "throw" /\ i < NumVariations

\* generateAccessToken: one token request and what is done with its response
TokenRequest(resp) ==
  /\ pc = "generateAccessToken"
  /\ IF yieldsToken(resp)
     THEN /\ pc' = "fetchLiveData"
          /\ UNCHANGED <<caller, attempt, jsonData, parsedFireTrucks, validRows, trucks,
                         tracksGeoJson, exitCode>>
     ELSE IF triesNext(resp, attempt)
     THEN /\ attempt' = attempt + 1
          /\ UNCHANGED <<pc, caller, jsonData, parsedFireTrucks, validRows, trucks,
                         tracksGeoJson, exitCode>>
     ELSE Exit(1)
  /\ UNCHANGED <<today, fed, gpxDate, snapshot, gpxFiles, authCalls, fetchCalls, written,
                 activated, row, coords>>
  /\ UNCHANGED csvVars
  /\ UNCHANGED ovVars
  /\ tokenResponse' = resp

\* fetchLiveData: the data request fails (transport error or HTTP status) ...
FetchFails ==
  /\ pc = "fetchLiveData"
  /\ fetchCalls' = fetchCalls + 1
  /\ Exit(1)
  /\ UNCHANGED <<today, fed, gpxDate, snapshot, gpxFiles, authCalls, written, activated,
                 row, coords>>
  /\ UNCHANGED csvVars
  /\ UNCHANGED ovVars
  /\ tokenResponse' = "none"

\* ... or returns the parsed JSON
FetchLiveData(json) ==
  /\ pc = "fetchLiveData"
  /\ fetchCalls' = fetchCalls + 1
  /\ jsonData' = json
  /\ fed' = fed + Len(extractRows(json).items)
  /\ pc' = "processRows"
  /\ UNCHANGED <<today, caller, attempt, parsedFireTrucks, validRows, trucks, gpxDate,
                 tracksGeoJson, snapshot, gpxFiles, exitCode, authCalls, written, activated,
                 row, coords>>
  /\ UNCHANGED csvVars
  /\ UNCHANGED ovVars
  /\ tokenResponse' = "none"

\* fetchAndCacheData from the extraction of the rows to the write of the
\* snapshot; a TypeError in between goes to the catch block: process.exit(1)
ProcessRows ==
  /\ pc = "processRows"
  /\ LET rows == extractRows(jsonData)
     IN  IF forEachThrows(rows)
         THEN /\ Exit(1)
              /\ UNCHANGED <<snapshot, written>>
         ELSE /\ parsedFireTrucks' = Arr(numericRows(rows.items))
              /\ validRows' = filterValidRows(numericRows(rows.items))
              /\ snapshot' = snapshotOf(validRows')
              /\ written' = written \cup {SnapshotFile}
              /\ trucks' = validRows'
              /\ jsonData' = NoJson
              /\ pc' = "loadTracks"
              /\ UNCHANGED <<caller, attempt, tracksGeoJson, exitCode>>
  /\ UNCHANGED <<today, fed, gpxDate, gpxFiles, authCalls, fetchCalls, activated, row, coords>>
  /\ UNCHANGED csvVars
  /\ UNCHANGED ovVars
  /\ UNCHANGED tokenResponse

\* updateDailyGpxTracks up to the load of the existing file
LoadTracks ==
  /\ pc = "loadTracks"
  /\ gpxDate' = today
  /\ tracksGeoJson' = loadTracks(gpxFiles[today])
  /\ pc' = "writeTracks"
  /\ UNCHANGED <<today, fed, caller, attempt, jsonData, parsedFireTrucks, validRows, trucks,
                 snapshot, gpxFiles, exitCode, authCalls, fetchCalls, written, activated,
                 row, coords>>
  /\ UNCHANGED csvVars
  /\ UNCHANGED ovVars
  /\ UNCHANGED tokenResponse

\* where the run goes on after updateDailyGpxTracks has returned
AfterTracks ==
  IF caller = "main"
  THEN /\ pc' = "createDailyTracks"
       /\ UNCHANGED <<caller, attempt, jsonData, parsedFireTrucks, validRows, exitCode>>
       /\ trucks' = <<>>
       /\ tracksGeoJson' = FreshTracks
  ELSE IF caller = "createDailyTracks"
  THEN /\ pc' = "loadTracks"
       /\ caller' = "tracks"
       /\ trucks' = validRows
       /\ tracksGeoJson' = FreshTracks
       /\ UNCHANGED <<attempt, jsonData, parsedFireTrucks, validRows, exitCode>>
  ELSE Exit(0)

fileAfterUpdate_WrittenBeforeThrow(tracks, content, list) ==
  IF tracks.usable THEN Collection(mergedFeatures(tracks.features, list))
  ELSE Collection(<<>>)

\* the day's file after updateDailyGpxTracks: the merged collection, written
\* by the last statement of the try block, or the content the call found
\* when a statement before the write has thrown (the catch block writes
\* nothing and returns null)
fileAfterUpdate(tracks, content, list) ==
  IF tracks.usable THEN Collection(mergedFeatures(tracks.features, list))
  ELSE content

\* updateDailyGpxTracks from the vehicle map to the return: the merge and
\* the write, or the catch block (return null) when the collection in
\* memory has no features array
WriteTracks ==
  /\ pc = "writeTracks"
  /\ gpxFiles' = [gpxFiles EXCEPT ![gpxDate] = fileAfterUpdate(tracksGeoJson, @, trucks)]
  /\ IF tracksGeoJson.usable
     THEN LET features == mergedFeatures(tracksGeoJson.features, trucks)
          IN  /\ written' = written \cup {GpxFile(gpxDate)}
              /\ activated' = [activated EXCEPT ![gpxDate] = @ \cup featureIds(features)]
     ELSE UNCHANGED <<written, activated>>
  /\ AfterTracks
  /\ UNCHANGED <<today, fed, gpxDate, snapshot, authCalls, fetchCalls, row, coords>>
  /\ UNCHANGED csvVars
  /\ UNCHANGED ovVars
  /\ UNCHANGED tokenResponse

\* createDailyTracks: the data already fetched if there is any, else
\* another fetchAndCacheData
CreateDailyTracks ==
  /\ pc = "createDailyTracks"
  /\ IF lengthOf(parsedFireTrucks) > 0
     THEN /\ trucks' = parsedFireTrucks.items
          /\ caller' = "tracks"
          /\ pc' = "loadTracks"
          /\ UNCHANGED <<attempt, authCalls>>
     ELSE /\ caller' = "createDailyTracks"
          /\ pc' = "generateAccessToken"
          /\ attempt' = 1
          /\ authCalls' = authCalls + 1
          /\ UNCHANGED trucks
  /\ UNCHANGED <<today, fed, jsonData, parsedFireTrucks, validRows, gpxDate, tracksGeoJson,
                 snapshot, gpxFiles, exitCode, fetchCalls, written, activated, row, coords>>
  /\ UNCHANGED csvVars
  /\ UNCHANGED ovVars
  /\ UNCHANGED tokenResponse

\* midnight passes
Tick ==
  /\ today < MaxDay
  /\ today' = today + 1
  /\ UNCHANGED <<fed, pc, caller, attempt, jsonData, parsedFireTrucks, validRows, trucks,
                 gpxDate, tracksGeoJson, snapshot, gpxFiles, exitCode, authCalls, fetchCalls,
                 written, activated, row, coords>>
  /\ UNCHANGED csvVars
  /\ UNCHANGED ovVars
  /\ UNCHANGED tokenResponse

Next ==
  \/ StartRun
  \/ \E resp \in TokenResponses : TokenRequest(resp)
  \/ FetchFails
  \/ \E json \in Payloads(MaxRecords - fed) : FetchLiveData(json)
  \/ ProcessRows
  \/ LoadTracks
  \/ WriteTracks
  \/ CreateDailyTracks
  \/ Tick

Spec == Init /\ [][Next]_vars

\* ------------------------------------------- the store under outside damage
\* Something other than a run (an interrupted write, a merge, an editor)
\* leaves the day's track file unparseable, or parseable without a features
\* array. A run sees the file only when updateDailyGpxTracks loads it, so
\* the damage is placed right before a load.
DamageTrackFile(d, content) ==
  /\ pc = "loadTracks"
  /\ gpxFiles[d] # content
  /\ gpxFiles' = [gpxFiles EXCEPT ![d] = content]
  /\ UNCHANGED <<today, fed, pc, caller, attempt, jsonData, parsedFireTrucks, validRows, trucks,
                 gpxDate, tracksGeoJson, snapshot, exitCode, authCalls, fetchCalls, written,
                 activated, row, coords>>
  /\ UNCHANGED csvVars
  /\ UNCHANGED ovVars
  /\ UNCHANGED tokenResponse

NextStore ==
  \/ Next
  \/ \E content \in {Garbage, Unusable} : DamageTrackFile(today, content)

SpecStore == Init /\ [][NextStore]_vars

\* ------------------------------------------------ the resolver on its own
RawLat == Str(15, 4867550)
RawLng == Str(73, 8174290)

ResolverRows ==
  { [Vehicle_No |-> v, Location |-> loc, POI |-> poi, Datetime |-> Txt,
     Latitude |-> lat, Longitude |-> lng, Status |-> st, Speed |-> Str(0, 0),
     IGN |-> ign, Power |-> pow, Door1 |-> d1, Door2 |-> d2] :
      v \in {KnownVehicle1, KnownVehicle2, "V1"},
      loc \in {Txt, Str(15, 5000000)},
      poi \in {Txt, Str(74, 0)},
      lat \in {Undef, RawLat, Com(15, 4867550), RawLng, Str(20, 0)},
      lng \in {Undef, RawLng, Com(73, 8174290), RawLat, Str(80, 0)},
      st \in {Txt, Str(15, 0)},
      ign \in {Txt, Empty, Str(15, 236433), Com(14, 6000000)},
      pow \in {Txt, Empty, Str(74, 440600), Com(74, 1000000)},
      d1 \in {Txt, Undef, RawLat, Com(15, 4867550)},
      d2 \in {Txt, Undef, RawLng, Com(73, 8174290)} }

InitResolver ==
  /\ today = 1
  /\ fed = 0
  /\ pc = "extractCoordinates"
  /\ caller = "none"
  /\ attempt = 0
  /\ jsonData = NoJson
  /\ parsedFireTrucks = Arr(<<>>)
  /\ validRows = <<>>
  /\ trucks = <<>>
  /\ gpxDate = 1
  /\ tracksGeoJson = FreshTracks
  /\ snapshot = NoSnapshot
  /\ gpxFiles = [d \in Days |-> Missing]
  /\ exitCode = -1
  /\ authCalls = 0
  /\ fetchCalls = 0
  /\ written = {}
  /\ activated = [d \in Days |-> {}]
  /\ row \in ResolverRows
  /\ coords = Invalid
  /\ CsvIdle
  /\ OverlapIdle
  /\ tokenResponse = "none"

\* const coordinates = extractCoordinates(row)
Resolve ==
  /\ pc = "extractCoordinates"
  /\ coords' = extractCoordinates(row)
  /\ pc' = "resolved"
  /\ UNCHANGED <<today, fed, caller, attempt, jsonData, parsedFireTrucks, validRows, trucks,
                 gpxDate, tracksGeoJson, snapshot, gpxFiles, exitCode, authCalls, fetchCalls,
                 written, activated, row>>
  /\ UNCHANGED csvVars
  /\ UNCHANGED ovVars
  /\ UNCHANGED tokenResponse

NextResolver == Resolve

SpecResolver == InitResolver /\ [][NextResolver]_vars

\* ------------------------------------------------------- parseFiretruckCSV
\* the keys a row can get from the header lines of the model
CsvFields == {"Company", "Vehicle_No", "Location", "POI", "Datetime", "Latitude",
              "Longitude", "Status", "Speed", "IGN", "Power", "Door1", "Door2"}

\* a cell of a line (the pieces line.split(',') gives): a raw value, the
\* text Name(n), or the number a.b between double quotes
Quoted(ip, fp) == [k |-> "quo", a |-> ip, b |-> fp]

\* the lines of a payload: a header line starts with 'Company,' and its
\* cells are the header names; a marker line contains 'No Data Found'
HeaderLine(names) == [kind |-> "header", names |-> names, cells |-> [i \in 1..Len(names) |-> Txt]]
DataLine(cells) == [kind |-> "data", names |-> <<>>, cells |-> cells]
NoDataLine == [kind |-> "nodata", names |-> <<>>, cells |-> <<Txt>>]
BlankLine == [kind |-> "blank", names |-> <<>>, cells |-> <<>>]

Layout1 == <<"Company", "Vehicle_No", "Latitude", "Longitude">>
Layout2 == <<"Company", "Vehicle_No", "Door1", "Door2">>

CsvLines ==
  { HeaderLine(Layout1),
    HeaderLine(Layout2),
    DataLine(<<Name(0), Name(1), Str(15, 4867550), Str(73, 8174290)>>),
    DataLine(<<Name(0), Name(1), Quoted(15, 5000000), Str(73, 9000000)>>),
    DataLine(<<Name(0), Name(1)>>),
    NoDataLine,
    BlankLine }

\* line.trim().length > 0
nonEmptyLine(line) == line.kind # "blank"

\* values[index] || '', then the surrounding quotes removed
cellValue(values, index) ==
  IF index > Len(values) THEN Empty
  ELSE IF values[index].k = "quo" THEN Str(values[index].a, values[index].b)
  ELSE IF Truthy(values[index]) THEN values[index]
  ELSE Empty

\* the string a cell is when it stands in the Vehicle_No column
idOf(cell) ==
  IF cell.k \in {"empty", "undef"} THEN ""
  ELSE IF cell = Name(1) THEN "V1"
  ELSE "other"

\* the index at which headers.forEach assigns row[field] last, 0 for none
headerIndex(hs, field) ==
  IF \E i \in 1..Len(hs) : hs[i] = field
  THEN CHOOSE i \in 1..Len(hs) : hs[i] = field /\ \A j \in (i + 1)..Len(hs) : hs[j] # field
  ELSE 0

\* the row object built from the headers in force and the values of a line
rawRecord(hs, values) ==
  [field \in CsvFields |->
     LET index == headerIndex(hs, field)
     IN  IF field = "Vehicle_No"
         THEN IF index = 0 THEN "" ELSE idOf(cellValue(values, index))
         ELSE IF index = 0 THEN Undef ELSE cellValue(values, index)]

\* row.Latitude = coordinates.lat; row.Longitude = coordinates.lng
acceptedRow(r, c) == [r EXCEPT !.Latitude = Num(c.lat), !.Longitude = Num(c.lng)]

InitCsv ==
  /\ today = 1
  /\ fed = 0
  /\ pc = "parseFiretruckCSV"
  /\ caller = "none"
  /\ attempt = 0
  /\ jsonData = NoJson
  /\ parsedFireTrucks = Arr(<<>>)
  /\ validRows = <<>>
  /\ trucks = <<>>
  /\ gpxDate = 1
  /\ tracksGeoJson = FreshTracks
  /\ snapshot = NoSnapshot
  /\ gpxFiles = [d \in Days |-> Missing]
  /\ exitCode = -1
  /\ authCalls = 0
  /\ fetchCalls = 0
  /\ written = {}
  /\ activated = [d \in Days |-> {}]
  /\ row = NoRow
  /\ coords = Invalid
  /\ csvText \in SeqsUpTo(CsvLines, MaxLines)
  /\ lines = <<>>
  /\ currentIndex = 1
  /\ headers = <<>>
  /\ csvRows = <<>>
  /\ builtRows = <<>>
  /\ OverlapIdle
  /\ tokenResponse = "none"

\* parseFiretruckCSV up to the loop: the non-empty lines; no line, no rows
SplitLines ==
  /\ pc = "parseFiretruckCSV"
  /\ lines' = SelectSeq(csvText, nonEmptyLine)
  /\ pc' = IF Len(lines') = 0 THEN "parsed" ELSE "csvLoop"
  /\ UNCHANGED <<today, fed, caller, attempt, jsonData, parsedFireTrucks, validRows, trucks,
                 gpxDate, tracksGeoJson, snapshot, gpxFiles, exitCode, authCalls, fetchCalls,
                 written, activated, row, coords, csvText, currentIndex, headers, csvRows,
                 builtRows>>
  /\ UNCHANGED ovVars
  /\ UNCHANGED tokenResponse

\* one turn of the while loop: a line read as header line, then either the
\* break (end of the lines, or 'No Data Found' next) or the next line read
\* as data line, its row built, resolved and pushed if valid
ParseBlock ==
  /\ pc = "csvLoop"
  /\ LET headerLine == lines[currentIndex]
         dataIndex == currentIndex + 1
     IN  /\ headers' = IF headerLine.kind = "header" THEN headerLine.names ELSE headers
         /\ IF dataIndex > Len(lines) \/ lines[dataIndex].kind = "nodata"
            THEN /\ currentIndex' = dataIndex
                 /\ pc' = "parsed"
                 /\ UNCHANGED <<row, coords, csvRows, builtRows>>
            ELSE LET r == rawRecord(headers', lines[dataIndex].cells)
                     c == extractCoordinates(r)
                 IN  /\ currentIndex' = dataIndex + 1
                     /\ coords' = c
                     /\ row' = IF c.valid THEN acceptedRow(r, c) ELSE r
                     /\ builtRows' = Append(builtRows, [line |-> dataIndex, row |-> r])
                     /\ csvRows' = IF c.valid THEN Append(csvRows, acceptedRow(r, c)) ELSE csvRows
                     /\ pc' = IF dataIndex + 1 > Len(lines) THEN "parsed" ELSE "csvLoop"
  /\ UNCHANGED <<today, fed, caller, attempt, jsonData, parsedFireTrucks, validRows, trucks,
                 gpxDate, tracksGeoJson, snapshot, gpxFiles, exitCode, authCalls, fetchCalls,
                 written, activated, csvText, lines>>
  /\ UNCHANGED ovVars
  /\ UNCHANGED tokenResponse

NextCsv == SplitLines \/ ParseBlock

SpecCsv == InitCsv /\ [][NextCsv]_vars

\* ------------------------------------------------ runs that overlap
\* Two runs on the same store, with no lock: each call of
\* updateDailyGpxTracks reads the day's file, merges its trucks in memory
\* and writes the whole text back. fs.writeFileSync opens the file with
\* flag 'w', which empties it, and then writes the text from offset 0.

\* the file right after it was opened for writing
Truncated == [kind |-> "empty", features |-> <<>>, count |-> 0]

\* a shorter text written from offset 0 over a longer one: the new text
\* followed by the rest of the old one, which JSON.parse rejects; the file
\* keeps the old text's length
Mixed(old) == [kind |-> "mixed", features |-> old.features, count |-> old.count]

\* the length of JSON.stringify(tracksGeoJson, null, 2) for records whose
\* Vehicle_Name, Branch and Datetime have the same length: the text of a
\* collection without features, of a feature without its id and points, of
\* a point without its two numbers
EmptyCollectionLength == 282
FeatureLength == 290
PointLength == 52

RECURSIVE intDigits(_)
intDigits(n) == IF n < 10 THEN 1 ELSE 1 + intDigits(n \div 10)

RECURSIVE fracDigits(_, _)
fracDigits(f, width) ==
  IF f = 0 THEN 0
  ELSE IF f % 10 = 0 THEN fracDigits(f \div 10, width - 1)
  ELSE width

\* the length of a number's text, such as 73.817429 or 80
numberLength(x) ==
  intDigits(x \div Scale) + (IF x % Scale = 0 THEN 0 ELSE 1 + fracDigits(x % Scale, 7))

idLength(id) == IF id = ProtoKey THEN 9 ELSE IF id \in Vehicles THEN 2 ELSE 0

RECURSIVE pointsLength(_, _)
pointsLength(coordinates, n) ==
  IF n = 0 THEN 0
  ELSE pointsLength(coordinates, n - 1) + PointLength
         + numberLength(coordinates[n][1]) + numberLength(coordinates[n][2])

RECURSIVE featuresLength(_, _)
featuresLength(features, n) ==
  IF n = 0 THEN 0
  ELSE featuresLength(features, n - 1) + FeatureLength + idLength(features[n].Vehicle_No)
         + pointsLength(features[n].coordinates, Len(features[n].coordinates))

\* the length of the file's text; a missing or just opened file has none
textLength(content) ==
  IF content.kind \in {"ok", "mixed"}
  THEN EmptyCollectionLength + (IF Len(content.features) = 0 THEN 0 ELSE 2)
         + featuresLength(content.features, Len(content.features))
  ELSE 0

\* the file after the text of newContent was written from offset 0
writeFrom0(current, newContent) ==
  IF textLength(current) > textLength(newContent) THEN Mixed(current) ELSE newContent

\* the validated records a run may hand to updateDailyGpxTracks
OverlapLists == {filterValidRows(numericRows(q)) : q \in SeqsUpTo(FeedRows, MaxRecords)}

\* the day's file an earlier run may have left
PriorFiles ==
  {Missing} \cup {Collection(mergedFeatures(<<>>, list)) : list \in {l \in OverlapLists : Len(l) <= 1}}

InitOverlap ==
  /\ today = 1
  /\ fed = 0
  /\ pc = "updateDailyGpxTracks"
  /\ caller = "none"
  /\ attempt = 0
  /\ jsonData = NoJson
  /\ parsedFireTrucks = Arr(<<>>)
  /\ validRows = <<>>
  /\ trucks = <<>>
  /\ gpxDate = 1
  /\ tracksGeoJson = FreshTracks
  /\ snapshot = NoSnapshot
  /\ \E file \in PriorFiles : gpxFiles = [d \in Days |-> IF d = 1 THEN file ELSE Missing]
  /\ exitCode = -1
  /\ authCalls = 0
  /\ fetchCalls = 0
  /\ written = {}
  /\ activated = [d \in Days |-> {}]
  /\ row = NoRow
  /\ coords = Invalid
  /\ CsvIdle
  /\ OverlapIdle
  /\ tokenResponse = "none"

\* updateDailyGpxTracks(list) in run p, from the date to the end of the
\* forEach: the file is read and the trucks are merged in memory; a
\* collection without a features array ends the call in the catch block
ReadTracksFile(p, list) ==
  /\ procs[p].pc = "idle"
  /\ LET loaded == loadTracks(gpxFiles[today])
     IN  procs' = [procs EXCEPT ![p] =
                     IF loaded.usable
                     THEN [pc |-> "merged", date |-> today, trucks |-> list,
                           features |-> mergedFeatures(loaded.features, list)]
                     ELSE [pc |-> "returned", date |-> today, trucks |-> list,
                           features |-> <<>>]]
  /\ overlapped' = (overlapped \/ \E q \in Procs \ {p} : procs[q].pc \in {"merged", "opened"})
  /\ UNCHANGED <<lastWriter, runVars, row, coords>>
  /\ UNCHANGED csvVars
  /\ UNCHANGED tokenResponse

\* fs.writeFileSync, first half: the file is opened and emptied
OpenTracksFile(p) ==
  /\ procs[p].pc = "merged"
  /\ gpxFiles' = [gpxFiles EXCEPT ![procs[p].date] = Truncated]
  /\ procs' = [procs EXCEPT ![p].pc = "opened"]
  /\ UNCHANGED <<today, fed, pc, caller, attempt, jsonData, parsedFireTrucks, validRows, trucks,
                 gpxDate, tracksGeoJson, snapshot, exitCode, authCalls, fetchCalls, written,
                 activated, row, coords, lastWriter, overlapped>>
  /\ UNCHANGED csvVars
  /\ UNCHANGED tokenResponse

\* fs.writeFileSync, second half: the text is written from offset 0, and
\* the call returns
WriteTracksFile(p) ==
  /\ procs[p].pc = "opened"
  /\ gpxFiles' = [gpxFiles EXCEPT ![procs[p].date] = writeFrom0(@, Collection(procs[p].features))]
  /\ procs' = [procs EXCEPT ![p].pc = "returned"]
  /\ lastWriter' = p
  /\ UNCHANGED <<today, fed, pc, caller, attempt, jsonData, parsedFireTrucks, validRows, trucks,
                 gpxDate, tracksGeoJson, snapshot, exitCode, authCalls, fetchCalls, written,
                 activated, row, coords, overlapped>>
  /\ UNCHANGED csvVars
  /\ UNCHANGED tokenResponse

NextOverlap ==
  \/ \E p \in Procs, list \in OverlapLists : ReadTracksFile(p, list)
  \/ \E p \in Procs : OpenTracksFile(p)
  \/ \E p \in Procs : WriteTracksFile(p)

SpecOverlap == InitOverlap /\ [][NextOverlap]_vars

\* ------------------------------------- the forEach body on one record
\* updateDailyGpxTracks with the day's file holding one track and with one
\* record handed over: the names, the branch and the time of the record and
\* of the track vary

\* the tracks a day's file may hold
TrackFeatures ==
  { [Vehicle_No |-> id, coordinates |-> cs, Vehicle_Name |-> nm, Branch |-> br,
     created |-> Name(5), lastUpdated |-> up] :
      id \in {"V1", ProtoKey},
      cs \in { <<<<738174290, 154867550>>>>,
               <<<<738174290, 154867550>>, <<739000000, 155000000>>>>,
               <<<<739000000, 155000000>>, <<738174290, 154867550>>>> },
      nm \in {Empty, Name(1)},
      br \in {Empty, Name(2)},
      up \in {Name(5), Name(6)} }

\* the records handed over: at the track's last point, away from it on both
\* coordinates or on one, with or without a Datetime
TrackTrucks ==
  { [Obj(id, Num(pos[2]), Num(pos[1])) EXCEPT !.Datetime = dt, !.Vehicle_Name = nm, !.Branch = br] :
      id \in {"V1", "V2", ProtoKey},
      pos \in {<<738174290, 154867550>>, <<739000000, 155000000>>, <<739000000, 154867550>>},
      dt \in {Name(6), Name(7), Undef},
      nm \in {Name(1), Name(8)},
      br \in {Name(2), Empty} }

InitTrack ==
  /\ today = 1
  /\ fed = 0
  /\ pc = "forEach"
  /\ caller = "none"
  /\ attempt = 0
  /\ jsonData = NoJson
  /\ parsedFireTrucks = Arr(<<>>)
  /\ validRows = <<>>
  /\ \E truck \in TrackTrucks : trucks = <<truck>>
  /\ gpxDate = 1
  /\ \E feature \in TrackFeatures : tracksGeoJson = [usable |-> TRUE, features |-> <<feature>>]
  /\ snapshot = NoSnapshot
  /\ gpxFiles = [d \in Days |-> Missing]
  /\ exitCode = -1
  /\ authCalls = 0
  /\ fetchCalls = 0
  /\ written = {}
  /\ activated = [d \in Days |-> {}]
  /\ row = NoRow
  /\ coords = Invalid
  /\ CsvIdle
  /\ OverlapIdle
  /\ tokenResponse = "none"

\* the vehicle map and trucks.forEach
ForEachTruck ==
  /\ pc = "forEach"
  /\ tracksGeoJson' = [tracksGeoJson EXCEPT !.features = mergedFeatures(@, trucks)]
  /\ pc' = "forEachDone"
  /\ UNCHANGED <<today, fed, caller, attempt, jsonData, parsedFireTrucks, validRows, trucks,
                 gpxDate, snapshot, gpxFiles, exitCode, authCalls, fetchCalls, written,
                 activated, row, coords>>
  /\ UNCHANGED csvVars
  /\ UNCHANGED ovVars
  /\ UNCHANGED tokenResponse

NextTrack == ForEachTruck

SpecTrack == InitTrack /\ [][NextTrack]_vars

\* ================================================================== claims
PointA == <<738174290, 154867550>>
PointB == <<739000000, 155000000>>

\* the file's features are one track, of the given vehicle and points
onlyTrack(features, id, cs) ==
  Len(features) = 1 /\ features[1].Vehicle_No = id /\ features[1].coordinates = cs

IsPrefix(s, t) == Len(s) <= Len(t) /\ \A i \in 1..Len(s) : s[i] = t[i]

inBox(c) == inLngRange(c[1]) /\ inLatRange(c[2])

\* the step in which updateDailyGpxTracks merges, writes and returns
AccumulationStep == pc = "writeTracks" /\ pc' # "writeTracks"

\* C1: every coordinate pair stored in a daily track file lies inside the
\* bounding box: latitude in [14.5, 16.0], longitude in [73.5, 74.5].
C1_TrackPointsInBox ==
  \A d \in Days : \A i \in 1..Len(gpxFiles[d].features) :
    \A j \in 1..Len(gpxFiles[d].features[i].coordinates) :
      inBox(gpxFiles[d].features[i].coordinates[j])

\* C2: whenever extractCoordinates returns valid = true, the returned lat
\* and lng lie inside the bounding box.
C2_ValidResultInBox ==
  (pc = "resolved" /\ coords.valid) => (inLatRange(coords.lat) /\ inLngRange(coords.lng))

\* C3: no track holds two adjacent coordinate pairs that are equal on both
\* components.
C3_NoAdjacentDuplicates ==
  \A d \in Days : \A i \in 1..Len(gpxFiles[d].features) :
    LET cs == gpxFiles[d].features[i].coordinates
    IN  \A j \in 1..(Len(cs) - 1) : cs[j] # cs[j + 1]

\* C3 witness: two records have been fed, the run whose only valid record
\* was V1 at point A has ended with exit status 0, and the day's file holds
\* V1's track with that one coordinate: every accumulation after the first
\* one met the point again and left it out.
C3_Witness ==
  /\ pc = "exited" /\ exitCode = 0 /\ fed = 2
  /\ snapshot.features = <<[coordinates |-> PointA, Vehicle_No |-> "V1"]>>
  /\ onlyTrack(gpxFiles[gpxDate].features, "V1", <<PointA>>)

\* C4: no daily track file holds two features with the same Vehicle_No.
C4_UniqueVehicleFeatures ==
  \A d \in Days : \A i, j \in 1..Len(gpxFiles[d].features) :
    gpxFiles[d].features[i].Vehicle_No = gpxFiles[d].features[j].Vehicle_No => i = j

\* C5 as stated: after every accumulation that writes the day's file, every
\* vehicle that has ever had a track feature in that day's file has one.
C5_NeverRevertsToAbsent ==
  [][(AccumulationStep /\ tracksGeoJson.usable)
       => activated[gpxDate] \subseteq featureIds(gpxFiles'[gpxDate].features)]_vars

\* C5 as amended: an accumulation that finds the day's file holding a
\* collection keeps every vehicle of that collection in the file.
C5_KeptWhenLoaded ==
  [][(AccumulationStep /\ gpxFiles[gpxDate].kind = "ok")
       => /\ gpxFiles'[gpxDate].kind = "ok"
          /\ featureIds(gpxFiles[gpxDate].features)
               \subseteq featureIds(gpxFiles'[gpxDate].features)]_vars

\* C5 witness: a run whose only record is V2 has accumulated into a file
\* that already held V1, and V1 is still there.
C5_Witness ==
  /\ pc = "createDailyTracks"
  /\ Len(parsedFireTrucks.items) = 1
  /\ parsedFireTrucks.items[1].Vehicle_No = "V2"
  /\ featureIds(gpxFiles[gpxDate].features) = {"V1", "V2"}

\* C6: when the existing file is loaded successfully, every feature's
\* coordinate sequence before the accumulation is a prefix of the sequence
\* of the same feature after it.
C6_AppendOnly ==
  [][(AccumulationStep /\ gpxFiles[gpxDate].kind = "ok")
       => LET old == gpxFiles[gpxDate].features
              new == gpxFiles'[gpxDate].features
          IN  /\ Len(old) <= Len(new)
              /\ \A i \in 1..Len(old) :
                   /\ new[i].Vehicle_No = old[i].Vehicle_No
                   /\ IsPrefix(old[i].coordinates, new[i].coordinates)]_vars

\* C6 witness: a run whose only record is V1 at point B has accumulated into
\* a file that held V1's track; the track is the old point followed by B.
C6_Witness ==
  /\ pc = "createDailyTracks"
  /\ Len(parsedFireTrucks.items) = 1
  /\ parsedFireTrucks.items[1].Vehicle_No = "V1"
  /\ truckCoords(parsedFireTrucks.items[1]) = PointB
  /\ onlyTrack(gpxFiles[gpxDate].features, "V1", <<PointA, PointB>>)

\* the last usable record of its vehicle in the list
lastOfVehicle(list, i) ==
  /\ truckIsUsable(list[i])
  /\ \A k \in (i + 1)..Len(list) :
       ~(truckIsUsable(list[k]) /\ list[k].Vehicle_No = list[i].Vehicle_No)

\* C7: whatever the prior content of the day's file, after the accumulation
\* the file is a collection that holds, for every incoming record with a
\* vehicle id and a valid position (the last one of its vehicle), a feature
\* whose last coordinate is that record's [longitude, latitude].
C7_FreshAfterUnusableContent ==
  [][AccumulationStep
       => /\ gpxFiles'[gpxDate].kind = "ok"
          /\ \A i \in 1..Len(trucks) : lastOfVehicle(trucks, i)
               => \E n \in 1..Len(gpxFiles'[gpxDate].features) :
                    LET f == gpxFiles'[gpxDate].features[n]
                    IN  /\ f.Vehicle_No = trucks[i].Vehicle_No
                        /\ f.coordinates[Len(f.coordinates)] = truckCoords(trucks[i])]_vars

\* C8: when authentication or the data request fails, the run ends with a
\* non-zero exit status and has written neither the snapshot nor a track
\* file.
C8_FailedFetchWritesNothing ==
  [][(pc \in {"generateAccessToken", "fetchLiveData"} /\ pc' = "exited")
       => (exitCode' = 1 /\ written' = {})]_vars

\* C9: in a run the payload is requested at most once and authentication is
\* performed at most once.
C9_FetchedAtMostOnce == authCalls <= 1 /\ fetchCalls <= 1

\* C10: whatever the structure of a fetched JSON payload, the run is not
\* aborted on it: it goes on to write a FeatureCollection snapshot whose
\* count is its number of features.
C10_MalformedPayloadNotFatal ==
  [][(pc = "processRows" /\ pc' # "processRows")
       => /\ pc' = "loadTracks"
          /\ SnapshotFile \in written'
          /\ snapshot'.kind = "ok"
          /\ snapshot'.count = Len(snapshot'.features)]_vars

\* the override fields of a known vehicle are present and parse to numbers
\* inside the bounding box
overrideFieldsUsable(r, latField, lngField) ==
  /\ Truthy(r[latField]) /\ Truthy(r[lngField])
  /\ inLatRange(parseFloat(r[latField])) /\ inLngRange(parseFloat(r[lngField]))

\* C11: for a record of a known-override vehicle whose override field is
\* absent, empty or out of range, the resolver's result is the one the later
\* strategies give on that record.
C11_OverrideOnlyFromRecord ==
  pc = "resolved" =>
    /\ (row.Vehicle_No = KnownVehicle1 /\ ~overrideFieldsUsable(row, "Door1", "Door2"))
          => coords = laterStrategies(row)
    /\ (row.Vehicle_No = KnownVehicle2 /\ ~overrideFieldsUsable(row, "IGN", "Power"))
          => coords = laterStrategies(row)

\* C12: for a record whose Latitude and Longitude fields hold an in-range
\* pair, extractCoordinates returns exactly that pair.
C12_ConventionalPairReturned ==
  (pc = "resolved" /\ isValidGoaCoordinate(row.Latitude, "lat")
                   /\ isValidGoaCoordinate(row.Longitude, "lng"))
    => (coords.valid /\ coords.lat = cleanParse(row.Latitude)
                     /\ coords.lng = cleanParse(row.Longitude))

\* none of the strategies before the global scan succeeds on the record
noEarlierStrategy(r) ==
  /\ ~specialCase(r, KnownVehicle1, "Door1", "Door2", DefaultDoor1, DefaultDoor2, "").valid
  /\ ~specialCase(r, KnownVehicle2, "IGN", "Power", DefaultIGN, DefaultPower, "").valid
  /\ ~knownPair(r, "Door1", "Door2", "").valid
  /\ ~knownPair(r, "IGN", "Power", "").valid
  /\ ~slidingWindow(r, 1).valid

\* the i-th field of the record parses into the latitude (longitude) range
latCandidate(r, i) == Truthy(r[FieldOrder[i]]) /\ inLatRange(cleanParse(r[FieldOrder[i]]))
lngCandidate(r, i) == Truthy(r[FieldOrder[i]]) /\ inLngRange(cleanParse(r[FieldOrder[i]]))

\* C13: when no earlier strategy succeeds and some field parses into the
\* latitude range and some field into the longitude range, the result is
\* valid, its latitude is that of the latitude candidate of highest
\* confidence, the first one met among equals, and its longitude likewise.
C13_GlobalScanPicksBest ==
  (pc = "resolved" /\ noEarlierStrategy(row)
     /\ (\E i \in 1..Len(FieldOrder) : latCandidate(row, i))
     /\ (\E j \in 1..Len(FieldOrder) : lngCandidate(row, j)))
    => /\ coords.valid
       /\ \E i, j \in 1..Len(FieldOrder) :
            /\ latCandidate(row, i) /\ lngCandidate(row, j)
            /\ \A k \in 1..Len(FieldOrder) : latCandidate(row, k) =>
                 \/ latConfidenceOf(FieldOrder[k]) < latConfidenceOf(FieldOrder[i])
                 \/ (latConfidenceOf(FieldOrder[k]) = latConfidenceOf(FieldOrder[i]) /\ k >= i)
            /\ \A k \in 1..Len(FieldOrder) : lngCandidate(row, k) =>
                 \/ lngConfidenceOf(FieldOrder[k]) < lngConfidenceOf(FieldOrder[j])
                 \/ (lngConfidenceOf(FieldOrder[k]) = lngConfidenceOf(FieldOrder[j]) /\ k >= j)
            /\ coords.lat = cleanParse(row[FieldOrder[i]])
            /\ coords.lng = cleanParse(row[FieldOrder[j]])
            /\ coords.source = FieldOrder[i] \o "/" \o FieldOrder[j]

\* C13 witness: Location and Status both parse into the latitude range with
\* confidence 5, Power alone into the longitude range; the result takes the
\* latitude of Location, the first of the two, and the longitude of Power.
C13_Witness ==
  /\ pc = "resolved" /\ noEarlierStrategy(row)
  /\ latCandidate(row, 1) /\ latCandidate(row, 6)
  /\ coords.valid /\ coords.source = "Location/Power"
  /\ coords.lat = cleanParse(row.Location) /\ coords.lng = cleanParse(row.Power)

\* C14: a value written with a decimal comma is used as its point-separated
\* equivalent wherever it is parsed: the latitude and the longitude of a
\* valid result equal the point-separated values of the fields the result
\* names as its source.
C14_CommaValuesParsedWhole ==
  (pc = "resolved" /\ coords.valid) =>
    /\ \A i, j \in 1..Len(FieldOrder) :
         coords.source = FieldOrder[i] \o "/" \o FieldOrder[j]
           => /\ coords.lat = cleanParse(row[FieldOrder[i]])
              /\ coords.lng = cleanParse(row[FieldOrder[j]])
    /\ coords.source = "special_case_Door1_Door2"
         => /\ Truthy(row.Door1) => coords.lat = cleanParse(row.Door1)
            /\ Truthy(row.Door2) => coords.lng = cleanParse(row.Door2)
    /\ coords.source = "special_case_IGN_Power"
         => /\ Truthy(row.IGN) => coords.lat = cleanParse(row.IGN)
            /\ Truthy(row.Power) => coords.lng = cleanParse(row.Power)

\* what each strategy gives on the record when it is tried alone, in the
\* fixed order; the sliding window stands with its six adjacent pairs
strategyResults(r) ==
  << specialCase(r, KnownVehicle1, "Door1", "Door2", DefaultDoor1, DefaultDoor2,
                 "special_case_Door1_Door2"),
     specialCase(r, KnownVehicle2, "IGN", "Power", DefaultIGN, DefaultPower,
                 "special_case_IGN_Power"),
     knownPair(r, "Door1", "Door2", "Door1/Door2"),
     knownPair(r, "IGN", "Power", "IGN/Power"),
     windowPair(r, 1), windowPair(r, 2), windowPair(r, 3),
     windowPair(r, 4), windowPair(r, 5), windowPair(r, 6),
     globalScan(r) >>

\* C15: the result of extractCoordinates is the result of the earliest
\* strategy that succeeds on the record, in the order override, Door1/Door2,
\* IGN/Power, the adjacent pairs of the sliding window from the first on,
\* global scan; it is invalid when none succeeds.
C15_EarliestStrategyWins ==
  pc = "resolved" =>
    LET res == strategyResults(row)
    IN  IF \E i \in 1..Len(res) : res[i].valid
        THEN \E i \in 1..Len(res) :
               /\ res[i].valid
               /\ \A k \in 1..(i - 1) : ~res[k].valid
               /\ coords = res[i]
        ELSE ~coords.valid

\* C15 witness: IGN/Power and the window pair Latitude/Longitude both
\* succeed with different values, and the result is the one of IGN/Power.
C15_Witness ==
  /\ pc = "resolved"
  /\ ~strategyResults(row)[1].valid /\ ~strategyResults(row)[2].valid
  /\ ~strategyResults(row)[3].valid
  /\ strategyResults(row)[4].valid /\ strategyResults(row)[8].valid
  /\ strategyResults(row)[4].lat # strategyResults(row)[8].lat
  /\ coords = strategyResults(row)[4]

\* the payload is made of blocks: a header line immediately followed by
\* zero or one data line (checked on the first n non-empty lines)
wellFormedBlocks(ls, n) ==
  /\ \A i \in 1..n : ls[i].kind \in {"header", "data"}
  /\ \A i \in 1..n : ls[i].kind = "data" => (i > 1 /\ ls[i - 1].kind = "header")

\* the raw records of the data lines among the first n lines, each keyed by
\* the header line right before it
RECURSIVE blockRecords(_, _)
blockRecords(ls, n) ==
  IF n = 0 THEN <<>>
  ELSE IF ls[n].kind = "data"
       THEN Append(blockRecords(ls, n - 1),
                   [line |-> n, row |-> rawRecord(ls[n - 1].names, ls[n].cells)])
       ELSE blockRecords(ls, n - 1)

\* C16: on a payload made of blocks (a header line followed by zero or one
\* data line) parseFiretruckCSV builds exactly one raw record per data line,
\* from that line and the headers of its own block, and none from a header
\* line.
C16_OneRecordPerDataLine ==
  (pc = "parsed" /\ wellFormedBlocks(lines, Len(lines)))
    => builtRows = blockRecords(lines, Len(lines))

\* the rows parseFiretruckCSV accepts among the given raw records
RECURSIVE acceptedAmong(_, _)
acceptedAmong(records, n) ==
  IF n = 0 THEN <<>>
  ELSE LET r == records[n].row
           c == extractCoordinates(r)
       IN  IF c.valid THEN Append(acceptedAmong(records, n - 1), acceptedRow(r, c))
           ELSE acceptedAmong(records, n - 1)

\* C17: when the line after a header line contains 'No Data Found' (the
\* lines before it being blocks), the function returns, no line at or after
\* the marker has produced a record, and the returned rows are the rows
\* accepted from the blocks before that header.
C17_NoDataFoundStops ==
  pc = "parsed" =>
    \A i \in 1..(Len(lines) - 1) :
      (lines[i].kind = "header" /\ lines[i + 1].kind = "nodata" /\ wellFormedBlocks(lines, i))
        => /\ \A k \in 1..Len(builtRows) : builtRows[k].line <= i
           /\ csvRows = acceptedAmong(blockRecords(lines, i - 1), Len(blockRecords(lines, i - 1)))

\* the records of a payload array whose coordinates the cascade recovers
recoverable(items) ==
  {i \in 1..Len(items) : items[i].t = "obj" /\ extractCoordinates(items[i]).valid}

\* C18: in JSON mode every record whose coordinates the cascade of the
\* Coordinate Resolver recovers (for example from Door1/Door2) yields a
\* record in the snapshot: a run that writes the snapshot keeps as many
\* records as the resolver finds coordinates for.
C18_JsonRecordsResolved ==
  [][(pc = "processRows" /\ pc' = "loadTracks")
       => LET items == extractRows(jsonData).items
          IN  /\ Len(validRows') = Cardinality(recoverable(items))
              /\ snapshot'.count = Cardinality(recoverable(items))]_vars

\* the array at the first of the three locations that holds one:
\* root.VehicleData, the payload itself, data (data itself or the
\* VehicleData under it); none: the empty list
firstArray(json) ==
  IF json.top.j # "absent" /\ json.rootVD.j = "array" THEN json.rootVD.items
  ELSE IF json.top.j = "array" THEN json.top.items
  ELSE IF json.top.j # "absent" /\ json.data.j = "array" THEN json.data.items
  ELSE IF json.top.j # "absent" /\ json.data.j = "other" /\ json.dataVD.j = "array"
       THEN json.dataVD.items
  ELSE <<>>

\* C19: in JSON mode the vehicle records are the array at root.VehicleData,
\* else the payload itself when it is an array, else the array under data;
\* a value at an earlier location that is no array does not stop a later
\* location from being used, and with no array at any location the record
\* list is empty (stated for lists without a null element).
C19_FirstArrayLocationUsed ==
  [][(pc = "processRows" /\ pc' # pc /\ \A i \in 1..Len(firstArray(jsonData)) : firstArray(jsonData)[i].t # "null")
       => /\ pc' = "loadTracks"
          /\ parsedFireTrucks' = Arr(numericRows(firstArray(jsonData)))]_vars

\* the record is a mapping whose coordinates the Coordinate Resolver recovers
resolves(r) == r.t = "obj" /\ extractCoordinates(r).valid

\* the Point feature of a resolved record: [longitude, latitude] and the
\* record's other fields
resolvedFeature(r) ==
  [coordinates |-> <<extractCoordinates(r).lng, extractCoordinates(r).lat>>,
   Vehicle_No |-> r.Vehicle_No]

\* C20: after a successful run the snapshot file holds exactly one Point
\* feature per input record whose coordinates resolved, in input order, with
\* coordinates [longitude, latitude]; records that failed resolution have no
\* feature; metadata.count is the number of features.
C20_SnapshotHoldsResolvedRecords ==
  [][(pc = "processRows" /\ pc' = "loadTracks")
       => LET resolved == SelectSeq(extractRows(jsonData).items, resolves)
          IN  /\ snapshot'.kind = "ok"
              /\ snapshot'.features = [k \in 1..Len(resolved) |-> resolvedFeature(resolved[k])]
              /\ snapshot'.count = Len(snapshot'.features)]_vars

\* C21: in every daily track file written by updateDailyGpxTracks,
\* metadata.count is the number of features in the file, and that is the
\* number of distinct vehicles that have a track that day.
C21_CountIsDistinctVehicles ==
  \A d \in Days :
    gpxFiles[d].kind = "ok"
      => /\ gpxFiles[d].count = Len(gpxFiles[d].features)
         /\ Len(gpxFiles[d].features) = Cardinality(featureIds(gpxFiles[d].features))

\* C22: a run writes at most the track file of one date, the current one:
\* when a step of a run changes the content of a date's track file, the run
\* has written the track file of no other date, also in a run during which
\* the date changes.
C22_OtherDatesUntouched ==
  [][\A d \in Days :
       gpxFiles'[d] # gpxFiles[d] => \A e \in Days \ {d} : GpxFile(e) \notin written]_vars

\* every track of the first list is there in the second, at the same place,
\* with at least the same points in the same order
tracksKept(before, after) ==
  /\ Len(before) <= Len(after)
  /\ \A i \in 1..Len(before) :
       /\ before[i].Vehicle_No = after[i].Vehicle_No
       /\ IsPrefix(before[i].coordinates, after[i].coordinates)

\* C23: when two runs overlap on the same store, the file after both have
\* finished is exactly what the last writer computed from the state it
\* read, never a mixture of the two writes; when the runs do not overlap no
\* appended point is lost.
C23_LastWriterWins ==
  ((\A p \in Procs : procs[p].pc = "returned") /\ lastWriter # 0)
    => /\ gpxFiles[1] = Collection(procs[lastWriter].features)
       /\ ~overlapped => \A p \in Procs : tracksKept(procs[p].features, gpxFiles[1].features)

\* the step in which generateAccessToken sends a token request and deals
\* with its response
TokenStep == pc = "generateAccessToken" /\ <<pc, attempt>>' # <<pc, attempt>>

\* C24: generateAccessToken tries the six variants in their order and sends
\* at most six token requests; it returns the token of the first variant
\* whose response is ok, is no result 0 response and carries a token, sends
\* no token request after that one, and a result 0 response never yields a
\* token even if it carries a token field.
C24_FirstTokenReturned ==
  [][TokenStep
       => /\ attempt \in 1..NumVariations
          /\ (pc' = "fetchLiveData") <=> (tokenResponse' = "token")
          /\ pc' = "fetchLiveData" => attempt' = attempt
          /\ pc' = "generateAccessToken" => attempt' = attempt + 1 /\ attempt' <= NumVariations
          /\ tokenResponse' \in {"result0", "result0Token"} => pc' # "fetchLiveData"]_vars

\* five variants have failed and the token of the sixth was returned
C24_Witness ==
  /\ pc = "fetchLiveData"
  /\ attempt = NumVariations
  /\ tokenResponse = "token"

\* C28: on a variant that is not the last, an HTTP status that is not ok, a
\* result 0 response or a response without a token moves on to the next
\* variant, while a thrown request error on any variant ends authentication
\* at once with the remaining variants untried; when the last variant fails
\* the run exits non-zero.
C28_ThrowEndsAuthentication ==
  [][TokenStep
       => /\ (tokenResponse' \in {"notOk", "result0", "result0Token", "noToken"} /\ attempt < NumVariations)
               => (pc' = "generateAccessToken" /\ attempt' = attempt + 1 /\ exitCode' = exitCode)
          /\ tokenResponse' = "throw" => (pc' = "exited" /\ exitCode' = 1)
          /\ (tokenResponse' # "token" /\ attempt = NumVariations)
               => (pc' = "exited" /\ exitCode' = 1)]_vars

\* a token request has thrown and the run has ended with status 1
C28_Witness ==
  /\ pc = "exited"
  /\ exitCode = 1
  /\ tokenResponse = "throw"

\* C25: in every run the data request is sent only after a token was
\* obtained, the snapshot is written only after the payload was fetched,
\* a day's track file is written only after the snapshot was written, and
\* the track file is built from the records the snapshot was built from.
C25_StepsInOrder ==
  [][/\ fetchCalls' > fetchCalls => tokenResponse = "token"
     /\ SnapshotFile \in written' \ written => (pc = "processRows" /\ fetchCalls >= 1)
     /\ \A d \in Days : GpxFile(d) \in written' \ written => SnapshotFile \in written
     /\ (AccumulationStep /\ tracksGeoJson.usable) => snapshot = snapshotOf(trucks)]_vars

\* the usable records of a vehicle in a list
sightings(list, id) == {i \in 1..Len(list) : truckIsUsable(list[i]) /\ list[i].Vehicle_No = id}

\* C26: the accumulation that creates a date's track file starts with every
\* vehicle absent: the file then holds the vehicles sighted in that call and
\* no other, each track seeded from a position of that call, and a vehicle
\* sighted once has a LineString of that single point and created =
\* lastUpdated, whatever the files of earlier dates contain.
C26_NewDayStartsFresh ==
  [][(AccumulationStep /\ gpxFiles[gpxDate].kind = "missing")
       => LET new == gpxFiles'[gpxDate].features
          IN  /\ gpxFiles'[gpxDate].kind = "ok"
              /\ featureIds(new) = {id \in Vehicles \cup {ProtoKey} : sightings(trucks, id) # {}}
              /\ \A n \in 1..Len(new) :
                   LET seen == sightings(trucks, new[n].Vehicle_No)
                   IN  /\ \E i \in seen : new[n].coordinates[1] = truckCoords(trucks[i])
                       /\ Cardinality(seen) = 1
                            => \A i \in seen :
                                 /\ new[n].coordinates = <<truckCoords(trucks[i])>>
                                 /\ new[n].created = timestampOf(trucks[i])
                                 /\ new[n].lastUpdated = new[n].created]_vars

\* C26 witness: date 1's file holds V1's track ending at point A, and the
\* file of date 2 was created with V1's track seeded with the same point.
C26_Witness ==
  /\ today = 2
  /\ gpxFiles[1].kind = "ok" /\ onlyTrack(gpxFiles[1].features, "V1", <<PointA>>)
  /\ gpxFiles[2].kind = "ok" /\ onlyTrack(gpxFiles[2].features, "V1", <<PointA>>)

\* C27: for a vehicle that already has a track, an incoming point is
\* appended if and only if it differs from the track's last point on at
\* least one coordinate; lastUpdated becomes the record's timestamp exactly
\* when a point is appended; created, Vehicle_Name and Branch of the feature
\* do not change, and no other feature is made.
C27_AppendedIffDifferent ==
  [][(pc = "forEach" /\ pc' = "forEachDone"
        /\ tracksGeoJson.features[1].Vehicle_No = trucks[1].Vehicle_No)
       => LET old == tracksGeoJson.features[1]
              new == tracksGeoJson'.features[1]
              c == truckCoords(trucks[1])
              last == old.coordinates[Len(old.coordinates)]
              differs == last[1] # c[1] \/ last[2] # c[2]
          IN  /\ Len(tracksGeoJson'.features) = 1
              /\ new.coordinates = IF differs THEN Append(old.coordinates, c) ELSE old.coordinates
              /\ new.lastUpdated = IF differs THEN timestampOf(trucks[1]) ELSE old.lastUpdated
              /\ new.created = old.created
              /\ new.Vehicle_Name = old.Vehicle_Name
              /\ new.Branch = old.Branch]_vars

\* C29: accumulating the same record sequence a second time (as main does:
\* fetchAndCacheData's call, then createDailyTracks' call) leaves every
\* track's coordinate sequence as it was after the first accumulation, also
\* for a sequence that lists a vehicle twice at different positions.
C29_SecondAccumulationAddsNothing ==
  [][(AccumulationStep /\ caller = "tracks" /\ tracksGeoJson.usable
        /\ trucks = validRows /\ GpxFile(gpxDate) \in written)
       => LET old == gpxFiles[gpxDate].features
              new == gpxFiles'[gpxDate].features
          IN  \A i \in 1..Len(old) : new[i].coordinates = old[i].coordinates]_vars

====
